---- MODULE Spec2Model ----
(***************************************************************************)
(* Model of the patient-records viewer: the App component (profile cache,  *)
(* cache-through fetch, persistence in localStorage) and the PatientChat   *)
(* component (summary, chat, document-list and document-content flows).    *)
(*                                                                         *)
(* Every handler is one action up to its first await; the continuation of  *)
(* an async handler (the code after the await) is one action per outcome   *)
(* of the request.  React applies the state updates of a handler before    *)
(* the next event is dispatched, so a handler segment is atomic.  A        *)
(* continuation works on the values its closure captured when the handler  *)
(* was called; those values travel with the request in flight.             *)
(***************************************************************************)
EXTENDS Naturals, Sequences, FiniteSets

(* ------------------------------ bounds -------------------------------- *)
\* profile requests issued over the whole run
MaxProfileFetches == 3
\* page loads (the first load and the reloads)
MaxPageLoads == 2
\* detail views mounted per page load
MaxSessions == 2
\* chat submissions accepted per detail view
MaxSubmits == 2
\* document-list requests issued per detail view
MaxDocListReqs == 2
\* document-content requests issued per detail view
MaxContentReqs == 2
\* query, list and content requests counted together in the specification
\* of the whole detail view
MaxRequests == 3

(* --------------------------- value domains ---------------------------- *)
\* JavaScript null and undefined
NULL == "null"
UNDEFINED == "undefined"

\* the roster's patient names, in the order their keys are enumerated
KeyOrder == <<"Jane Doe", "John Roe">>
Patients == {KeyOrder[i] : i \in 1..Len(KeyOrder)}

\* bodies the /profile endpoint answers with (parsed JSON objects)
Data == {"profileA", "profileB"}

\* the documents of a patient, as /documents lists them
DocA == [filename |-> "labs.pdf", path |-> "/docs/labs.pdf", category |-> "Labs"]
DocB == [filename |-> "note.txt", path |-> "/docs/note.txt", category |-> "Other"]
Docs == {DocA, DocB}
NoContentReqs == [d \in Docs |-> 0]

\* a JavaScript object with no own keys
EmptyMap == [k \in {} |-> NULL]

\* the value of the profileCache state: an object, or null when the stored
\* text was the JSON literal null
ObjCache(m) == [tag |-> "object", map |-> m]
NullCache == [tag |-> "null", map |-> EmptyMap]

\* obj[key]: undefined for a key the object does not own
Get(m, k) == IF k \in DOMAIN m THEN m[k] ELSE UNDEFINED

\* !value for the values a cache slot can hold
Falsy(v) == v \in {NULL, UNDEFINED}

\* { ...obj, [key]: value }
Spread(m, k, v) == [x \in (DOMAIN m) \cup {k} |-> IF x = k THEN v ELSE m[x]]

(* ------------------------ JSON and localStorage ----------------------- *)
\* what localStorage holds under PROFILE_CACHE_KEY: no item, the empty
\* string, text that is not JSON, the JSON literal null, or a JSON object
\* given as its sequence of key/value members
NoItem == [kind |-> "absent", entries |-> <<>>]
EmptyText == [kind |-> "empty", entries |-> <<>>]
Garbage == [kind |-> "garbage", entries |-> <<>>]
NullText == [kind |-> "null", entries |-> <<>>]

\* members written for null-valued keys are dropped (what JSON.stringify
\* does for undefined-valued keys)
JSONstringify_dropNull(m) ==
  LET keys == SelectSeq(KeyOrder, LAMBDA k : k \in DOMAIN m /\ m[k] # NULL)
  IN [kind |-> "mapping",
      entries |-> [i \in 1..Len(keys) |-> [key |-> keys[i], val |-> m[keys[i]]]]]

\* JSON.stringify(cache): one member per own key, in enumeration order
JSONstringify(m) ==
  LET keys == SelectSeq(KeyOrder, LAMBDA k : k \in DOMAIN m)
  IN [kind |-> "mapping",
      entries |-> [i \in 1..Len(keys) |-> [key |-> keys[i], val |-> m[keys[i]]]]]

\* JSON.parse(text): throws on text that is not JSON; of a repeated key
\* the last member wins
ParseThrows(text) == text.kind = "garbage"
JSONparse(text) ==
  IF text.kind = "null" THEN NullCache
  ELSE LET e == text.entries
           ks == {e[i].key : i \in 1..Len(e)}
           last(k) == CHOOSE i \in 1..Len(e) :
                        e[i].key = k /\ \A j \in 1..Len(e) : e[j].key = k => j <= i
       IN ObjCache([k \in ks |-> e[last(k)].val])

\* a catch block that stores null instead of keeping the initial {}
LoadCache_nullOnError(text) ==
  IF text.kind \in {"absent", "empty"} THEN ObjCache(EmptyMap)
  ELSE IF ParseThrows(text) THEN NullCache
  ELSE JSONparse(text)

\* the mount effect of App: the cache state after it ran on the stored text
LoadCache(text) ==
  IF text.kind \in {"absent", "empty"} THEN ObjCache(EmptyMap)
  ELSE IF ParseThrows(text) THEN ObjCache(EmptyMap)
  ELSE JSONparse(text)

(* ------------------------------- state -------------------------------- *)
VARIABLES
  \* App
  selectedPatient,   \* useState(null): a patient name or NULL
  profileCache,      \* useState({}): ObjCache(map) or NullCache
  storage,           \* localStorage item PROFILE_CACHE_KEY
  appCrashed,        \* the App tree was unmounted by an error thrown in render
  profileFetches,    \* /profile requests in flight, each with its closure
  fetchCount,        \* history: /profile requests issued, per patient
  loadedKind,        \* history: kind of the stored text the page loaded from
  lastWritten,       \* history: <<map>> of the last cache write, <<>> if none
  pageLoads,         \* history: number of page loads
  \* the mounted PatientChat instance
  session,           \* number of PatientChat instances mounted so far
  isLoading, profileError, profileData,
  messages, query, isQueryLoading, isExpanded,
  isModalOpen, documents, isLoadingDocs, selectedDoc, docError,
  \* requests in flight issued by the mounted instance: the summary and
  \* query requests with their closures, the number of list requests, the
  \* number of content requests per document
  summaryReqs, queryReqs, docListReqs, contentReqs,
  \* requests in flight whose instance was unmounted: a number per flow
  orphans,
  \* history: requests issued by the mounted instance
  queryCount, docListCount, contentCount,
  lastDocsLoad,      \* history: outcome of the instance's last list load
  lastSummary,       \* history: <<body>> of the 200 answer the held summary
                     \* was built from, <<>> if none
  lastQueryOutcome   \* history: how the instance's last answered query
                     \* request ended, "none" if none was answered

appVars == <<selectedPatient, profileCache, storage, appCrashed,
             profileFetches, fetchCount, loadedKind, lastWritten, pageLoads>>
summaryVars == <<isLoading, profileError, profileData>>
chatVars == <<messages, query, isQueryLoading, isExpanded>>
docVars == <<isModalOpen, documents, isLoadingDocs, selectedDoc, docError>>
netVars == <<summaryReqs, queryReqs, docListReqs, contentReqs, orphans>>
histVars == <<queryCount, docListCount, contentCount, lastDocsLoad,
             lastSummary, lastQueryOutcome>>
vars == <<appVars, session, summaryVars, chatVars, docVars, netVars, histVars>>

(* ------------------------- PatientChat: mount ------------------------- *)
\* the useState initial values of a PatientChat instance (lines 6-18), after
\* its mount effect called fetchPatientSummary up to the await (lines 22-26)
ChatMounted ==
  /\ isLoading' = TRUE
  /\ profileError' = ""
  /\ profileData' = <<>>
  /\ messages' = <<>>
  /\ query' = <<>>
  /\ isQueryLoading' = FALSE
  /\ isExpanded' = FALSE
  /\ isModalOpen' = FALSE
  /\ documents' = <<>>
  /\ isLoadingDocs' = FALSE
  /\ selectedDoc' = <<>>
  /\ docError' = ""
  /\ queryCount' = 0
  /\ docListCount' = 0
  /\ contentCount' = 0
  /\ lastDocsLoad' = "none"
  /\ lastSummary' = <<>>
  /\ lastQueryOutcome' = "none"

\* no PatientChat instance is mounted: its state does not exist
ChatUnmounted ==
  /\ isLoading' = FALSE
  /\ profileError' = ""
  /\ profileData' = <<>>
  /\ messages' = <<>>
  /\ query' = <<>>
  /\ isQueryLoading' = FALSE
  /\ isExpanded' = FALSE
  /\ isModalOpen' = FALSE
  /\ documents' = <<>>
  /\ isLoadingDocs' = FALSE
  /\ selectedDoc' = <<>>
  /\ docError' = ""
  /\ queryCount' = 0
  /\ docListCount' = 0
  /\ contentCount' = 0
  /\ lastDocsLoad' = "none"
  /\ lastSummary' = <<>>
  /\ lastQueryOutcome' = "none"

(* -------------------------------- App --------------------------------- *)
TotalFetches == fetchCount[KeyOrder[1]] + fetchCount[KeyOrder[2]]

\* line 49: if (!profileCache[patientName])
NeedsFetch(cache, patientName) == Falsy(Get(cache.map, patientName))

\* handlePatientSelect (lines 46-52), called by the roster's view button;
\* the re-render mounts PatientChat (lines 56-64).  With a null cache line 49
\* throws after line 47 queued the selection, and the re-render throws at
\* line 60: React unmounts the tree.
handlePatientSelect(patientName) ==
  /\ selectedPatient = NULL
  /\ ~appCrashed
  /\ selectedPatient' = patientName
  /\ UNCHANGED <<profileCache, storage, loadedKind, lastWritten, pageLoads>>
  /\ IF profileCache.tag = "null"
     THEN /\ appCrashed' = TRUE
          /\ UNCHANGED <<profileFetches, fetchCount, session, summaryVars,
                         chatVars, docVars, netVars, histVars>>
     ELSE /\ session < MaxSessions
          /\ appCrashed' = FALSE
          /\ IF NeedsFetch(profileCache, patientName)
             THEN /\ TotalFetches < MaxProfileFetches
                  /\ fetchCount' = [fetchCount EXCEPT ![patientName] = @ + 1]
                  /\ profileFetches' = profileFetches \cup
                       {[patientName |-> patientName,
                         closure |-> profileCache.map,
                         n |-> fetchCount[patientName] + 1]}
             ELSE UNCHANGED <<profileFetches, fetchCount>>
          /\ session' = session + 1
          /\ ChatMounted
          /\ summaryReqs' = summaryReqs \cup {[patientName |-> patientName]}
          /\ UNCHANGED <<queryReqs, docListReqs, contentReqs, orphans>>

\* the requests of an instance stay attached to the detail view when it is
\* unmounted
Detached_kept(reqs) == reqs

\* the requests of an instance that still reach a mounted instance after it
\* was unmounted: none, React drops the state updates of an unmounted
\* component and the next detail view is a new instance (lines 56-66)
Detached(reqs) == {}

\* onBack (line 62): the roster replaces the detail view; no request is
\* aborted, the requests in flight become orphans
onBack ==
  /\ selectedPatient # NULL
  /\ ~appCrashed
  /\ selectedPatient' = NULL
  /\ ChatUnmounted
  /\ summaryReqs' = Detached(summaryReqs)
  /\ queryReqs' = Detached(queryReqs)
  /\ docListReqs' = 0
  /\ contentReqs' = NoContentReqs
  /\ orphans' =
       [summary |-> orphans.summary + Cardinality(summaryReqs \ summaryReqs'),
        query |-> orphans.query + Cardinality(queryReqs \ queryReqs'),
        docList |-> orphans.docList + docListReqs,
        content |-> orphans.content + contentReqs[DocA] + contentReqs[DocB]]
  /\ UNCHANGED <<profileCache, storage, appCrashed, profileFetches, fetchCount,
                 loadedKind, lastWritten, pageLoads, session>>

\* the answer to a request whose instance was unmounted: the continuation
\* runs, its state updates are dropped
OrphanResponse(flow) ==
  /\ orphans[flow] > 0
  /\ orphans' = [orphans EXCEPT ![flow] = @ - 1]
  /\ UNCHANGED <<appVars, session, summaryVars, chatVars, docVars,
                 summaryReqs, queryReqs, docListReqs, contentReqs, histVars>>

NoOrphans == [summary |-> 0, query |-> 0, docList |-> 0, content |-> 0]
Flows == {"summary", "query", "docList", "content"}

\* the text persisted is that of the cache the closure captured
Persisted_stale(closure, updatedCache) == JSONstringify(closure)

\* lines 36 and 42: localStorage.setItem(KEY, JSON.stringify(updatedCache))
Persisted(closure, updatedCache) == JSONstringify(updatedCache)

\* lines 34 and 40: the write spreads the profileCache the closure captured
\* when handlePatientSelect ran, not the cache state current at completion
WriteBase(closure, current) == closure

\* the three statements of a cache write (lines 34-36, 40-42); setProfileCache
\* of an unmounted App changes nothing, the storage write still happens
CacheWrite(r, value) ==
  LET updatedCache == Spread(WriteBase(r.closure, profileCache.map),
                             r.patientName, value)
  IN /\ profileCache' = IF appCrashed THEN profileCache ELSE ObjCache(updatedCache)
     /\ storage' = Persisted(r.closure, updatedCache)
     /\ lastWritten' = <<updatedCache>>
     /\ profileFetches' = profileFetches \ {r}
     /\ UNCHANGED <<selectedPatient, appCrashed, fetchCount, loadedKind,
                    pageLoads, session, summaryVars, chatVars, docVars,
                    netVars, histVars>>

\* fetchAndCacheProfile after the await, response ok (lines 32-36)
ProfileFetchOk(r, data) == CacheWrite(r, data)

\* fetchAndCacheProfile after the await, not ok or rejected (lines 37-43)
ProfileFetchFailed(r) == CacheWrite(r, NULL)

\* a page reload: memory and requests in flight are gone, the mount effect
\* of App (lines 16-26) loads the cache from the stored text
Reload ==
  /\ pageLoads < MaxPageLoads
  /\ pageLoads' = pageLoads + 1
  /\ selectedPatient' = NULL
  /\ profileCache' = LoadCache(storage)
  /\ appCrashed' = FALSE
  /\ profileFetches' = {}
  /\ loadedKind' = storage.kind
  /\ session' = 0
  /\ ChatUnmounted
  /\ summaryReqs' = {}
  /\ queryReqs' = {}
  /\ docListReqs' = 0
  /\ contentReqs' = NoContentReqs
  /\ orphans' = NoOrphans
  /\ UNCHANGED <<storage, fetchCount, lastWritten>>

\* what the browser may hold under the key when the page is first loaded
InitialTexts == {NoItem, EmptyText, Garbage, NullText}

Init ==
  /\ selectedPatient = NULL
  /\ storage \in InitialTexts
  /\ profileCache = LoadCache(storage)
  /\ appCrashed = FALSE
  /\ profileFetches = {}
  /\ fetchCount = [p \in Patients |-> 0]
  /\ loadedKind = storage.kind
  /\ lastWritten = <<>>
  /\ pageLoads = 1
  /\ session = 0
  /\ isLoading = FALSE
  /\ profileError = ""
  /\ profileData = <<>>
  /\ messages = <<>>
  /\ query = <<>>
  /\ isQueryLoading = FALSE
  /\ isExpanded = FALSE
  /\ isModalOpen = FALSE
  /\ documents = <<>>
  /\ isLoadingDocs = FALSE
  /\ selectedDoc = <<>>
  /\ docError = ""
  /\ summaryReqs = {}
  /\ queryReqs = {}
  /\ docListReqs = 0
  /\ contentReqs = NoContentReqs
  /\ orphans = NoOrphans
  /\ queryCount = 0
  /\ docListCount = 0
  /\ contentCount = 0
  /\ lastDocsLoad = "none"
  /\ lastSummary = <<>>
  /\ lastQueryOutcome = "none"

(* ----------------------- PatientChat: rendering ----------------------- *)
\* lines 160-167: the summary, the documents button and the chat widget are
\* rendered once the summary has loaded without error
PanelShown ==
  selectedPatient # NULL /\ ~appCrashed /\ ~isLoading /\ profileError = ""

\* lines 187, 214: the chat form is rendered in the expanded widget
FormShown == PanelShown /\ isExpanded

\* lines 231-251: what the modal body shows
ModalShown == PanelShown /\ isModalOpen
ViewerShown == ModalShown /\ ~isLoadingDocs /\ docError = "" /\ selectedDoc # <<>>
ListShown == ModalShown /\ ~isLoadingDocs /\ docError = "" /\ selectedDoc = <<>>

(* --------------------- PatientChat: summary flow ---------------------- *)
\* bodies of a 200 answer of /summary: the summary object may be missing,
\* and so may each field; a field may be the empty string
RawSummaries ==
  { [hasSummary |-> TRUE, medication_summary |-> "Metformin",
     lifestyle_recommendations |-> "Walk daily", condition_summary |-> "Diabetes"],
    [hasSummary |-> TRUE, medication_summary |-> "Metformin",
     lifestyle_recommendations |-> UNDEFINED, condition_summary |-> UNDEFINED],
    [hasSummary |-> TRUE, medication_summary |-> "",
     lifestyle_recommendations |-> "Walk daily", condition_summary |-> UNDEFINED],
    [hasSummary |-> FALSE, medication_summary |-> UNDEFINED,
     lifestyle_recommendations |-> UNDEFINED, condition_summary |-> UNDEFINED] }

\* the placeholder replaces a missing field only, an empty one is kept
OrElse_keepEmpty(hasSummary, v, placeholder) ==
  IF hasSummary /\ v \notin {UNDEFINED, NULL} THEN v ELSE placeholder

\* data.summary?.field || placeholder (lines 33-35)
OrElse(hasSummary, v, placeholder) ==
  IF hasSummary /\ v \notin {UNDEFINED, NULL, ""} THEN v ELSE placeholder

Normalize(raw) ==
  [medication_summary |->
     OrElse(raw.hasSummary, raw.medication_summary,
            "No medication information available."),
   lifestyle_recommendations |->
     OrElse(raw.hasSummary, raw.lifestyle_recommendations,
            "No lifestyle recommendations available."),
   condition_summary |->
     OrElse(raw.hasSummary, raw.condition_summary,
            "No condition information available.")]

\* the ways the request fails: status 404, another status, a rejected fetch
\* whose error carries a message, one whose message is empty
SummaryFailures == {"404", "500", "rejected", "rejectedNoMessage"}

\* error.message with no fallback text
SummaryMessage_noFallback(failure) ==
  CASE failure = "404" -> "No summary found."
    [] failure = "500" -> "Server error: 500"
    [] failure = "rejected" -> "Failed to fetch"
    [] OTHER -> ""

\* lines 28, 29, 39: the message held in profileError
SummaryMessage(failure) ==
  CASE failure = "404" -> "No summary found."
    [] failure = "500" -> "Server error: 500"
    [] failure = "rejected" -> "Failed to fetch"
    [] OTHER -> "Could not load patient summary."

\* the document list is requested as soon as the summary has loaded
SummaryOk_thenDocuments(r, raw) ==
  /\ r \in summaryReqs
  /\ summaryReqs' = summaryReqs \ {r}
  /\ profileData' = <<Normalize(raw)>>
  /\ isLoading' = FALSE
  /\ lastSummary' = <<raw>>
  /\ isLoadingDocs' = TRUE
  /\ docListCount' = docListCount + 1
  /\ docListReqs' = docListReqs + 1
  /\ UNCHANGED <<appVars, session, profileError, chatVars, isModalOpen,
                 documents, selectedDoc, docError, queryReqs, contentReqs,
                 orphans, queryCount, contentCount, lastDocsLoad,
                 lastQueryOutcome>>

\* fetchPatientSummary after the await, response ok (lines 31-36, 42)
SummaryOk(r, raw) ==
  /\ r \in summaryReqs
  /\ summaryReqs' = summaryReqs \ {r}
  /\ profileData' = <<Normalize(raw)>>
  /\ isLoading' = FALSE
  /\ lastSummary' = <<raw>>
  /\ UNCHANGED <<appVars, session, profileError, chatVars, docVars, queryReqs,
                 docListReqs, contentReqs, orphans, queryCount, docListCount,
                 contentCount, lastDocsLoad, lastQueryOutcome>>

\* fetchPatientSummary after the await, failure (lines 37-42)
SummaryFailed(r, failure) ==
  /\ r \in summaryReqs
  /\ summaryReqs' = summaryReqs \ {r}
  /\ profileError' = SummaryMessage(failure)
  /\ profileData' = <<>>
  /\ isLoading' = FALSE
  /\ lastSummary' = <<>>
  /\ UNCHANGED <<appVars, session, chatVars, docVars, queryReqs, docListReqs,
                 contentReqs, orphans, queryCount, docListCount, contentCount,
                 lastDocsLoad, lastQueryOutcome>>

(* ----------------------- PatientChat: chat flow ----------------------- *)
\* texts typed into the chat input, as sequences of characters: empty,
\* blank, a word with blanks around it
Queries == {<<>>, <<" ", " ">>, <<" ", "q", " ">>}

\* String.prototype.trim on a sequence of characters
RECURSIVE TrimLeft(_)
TrimLeft(q) == IF q # <<>> /\ Head(q) = " " THEN TrimLeft(Tail(q)) ELSE q
RECURSIVE TrimRight(_)
TrimRight(q) ==
  IF q # <<>> /\ q[Len(q)] = " " THEN TrimRight(SubSeq(q, 1, Len(q) - 1)) ELSE q
Trim(q) == TrimRight(TrimLeft(q))

\* the guard without the test of the loading flag
SubmitRejected_noLoadingTest(q, loading) == Trim(q) = <<>>

\* the guard without the trim
SubmitRejected_noTrim(q, loading) == q = <<>> \/ loading

\* line 51: if (!query.trim() || isQueryLoading) return
SubmitRejected(q, loading) == Trim(q) = <<>> \/ loading

\* the outcomes of POST /query: a string answer, an object answer, a non-ok
\* status with and without a detail field, a rejected fetch
QueryAnswers == {"string", "object"}
QueryFailures == {"detail", "status", "rejected"}

\* lines 70-73
BotMessage(answer) ==
  [sender |-> "bot",
   text |-> IF answer = "string" THEN "answer" ELSE "{\"answer\": 1}",
   isError |-> FALSE]

\* lines 67, 77-82
ErrorMessage(failure) ==
  [sender |-> "bot",
   text |-> CASE failure = "detail" -> "Sorry, I encountered an error: detail."
              [] failure = "status" ->
                   "Sorry, I encountered an error: Server responded with 500."
              [] OTHER -> "Sorry, I encountered an error: Failed to fetch.",
   isError |-> TRUE]

\* line 218: onChange of the input
setQuery(text) ==
  /\ FormShown
  /\ query' = text
  /\ UNCHANGED <<appVars, session, summaryVars, messages, isQueryLoading,
                 isExpanded, docVars, netVars, histVars>>

\* lines 182, 193: the widget's open and close buttons
setIsExpanded(value) ==
  /\ PanelShown
  /\ isExpanded = ~value
  /\ isExpanded' = value
  /\ UNCHANGED <<appVars, session, summaryVars, messages, query,
                 isQueryLoading, docVars, netVars, histVars>>

\* handleQuerySubmit up to the await (lines 49-60)
handleQuerySubmit ==
  /\ FormShown
  /\ IF SubmitRejected(query, isQueryLoading)
     THEN UNCHANGED <<messages, isQueryLoading, query, queryReqs, queryCount>>
     ELSE LET userMessage == [sender |-> "user", text |-> query, isError |-> FALSE]
              newMessages == Append(messages, userMessage)
          IN /\ queryCount < MaxSubmits
             /\ messages' = newMessages
             /\ isQueryLoading' = TRUE
             /\ query' = <<>>
             /\ queryCount' = queryCount + 1
             /\ queryReqs' = queryReqs \cup
                  {[newMessages |-> newMessages,
                    body |-> [patient_name |-> selectedPatient, query |-> query]]}
  /\ UNCHANGED <<appVars, session, summaryVars, isExpanded, docVars,
                 summaryReqs, docListReqs, contentReqs, orphans, docListCount,
                 contentCount, lastDocsLoad, lastSummary,
                 lastQueryOutcome>>

\* the end of handleQuerySubmit with no finally block: the loading flag is
\* cleared on the success path only
QueryDone_noFinally(r, botMessage, outcome) ==
  /\ r \in queryReqs
  /\ queryReqs' = queryReqs \ {r}
  /\ messages' = Append(r.newMessages, botMessage)
  /\ isQueryLoading' = (outcome \in QueryFailures)
  /\ lastQueryOutcome' = outcome
  /\ UNCHANGED <<appVars, session, summaryVars, query, isExpanded, docVars,
                 summaryReqs, docListReqs, contentReqs, orphans, queryCount,
                 docListCount, contentCount, lastDocsLoad, lastSummary>>

\* the end of handleQuerySubmit: the bot message is appended to the
\* transcript the closure captured, the loading flag is cleared (73-74,
\* 83, 85)
QueryDone(r, botMessage, outcome) ==
  /\ r \in queryReqs
  /\ queryReqs' = queryReqs \ {r}
  /\ messages' = Append(r.newMessages, botMessage)
  /\ isQueryLoading' = FALSE
  /\ lastQueryOutcome' = outcome
  /\ UNCHANGED <<appVars, session, summaryVars, query, isExpanded, docVars,
                 summaryReqs, docListReqs, contentReqs, orphans, queryCount,
                 docListCount, contentCount, lastDocsLoad, lastSummary>>

\* handleQuerySubmit after the await, response ok (lines 69-74, 85)
QueryOk(r, answer) == QueryDone(r, BotMessage(answer), answer)

\* a failed request is sent again
QueryFailed_retried(r, failure) ==
  /\ r \in queryReqs
  /\ queryCount < MaxSubmits
  /\ queryCount' = queryCount + 1
  /\ lastQueryOutcome' = failure
  /\ UNCHANGED <<appVars, session, summaryVars, chatVars, docVars, netVars,
                 docListCount, contentCount, lastDocsLoad, lastSummary>>

\* handleQuerySubmit after the await, failure (lines 65-68, 75-85)
QueryFailed(r, failure) == QueryDone(r, ErrorMessage(failure), failure)

(* ------------------- PatientChat: document flows ---------------------- *)
\* bodies of a 200 answer of /documents
DocLists == {<<>>, <<DocA, DocB>>}

\* body of a 200 answer of /document_content for a path
ContentOf(doc) ==
  IF doc.path = DocA.path
  THEN [content |-> "text of labs.pdf", classification |-> "lab report"]
  ELSE [content |-> "text of note.txt", classification |-> "clinical note"]

\* a non-ok status, a rejected fetch
DocFailures == {"500", "rejected"}

\* lines 97, 103
DocListMessage(failure) ==
  IF failure = "500" THEN "Failed to fetch documents: 500" ELSE "Failed to fetch"

\* lines 119, 124
ContentMessage(failure) ==
  IF failure = "500" THEN "Failed to load document: 500" ELSE "Failed to fetch"

\* line 92: if (documents.length > 0) return
AlreadyHaveData(docs) == Len(docs) > 0

\* openDocumentsModal up to the await (lines 90-96), the button of line 175
openDocumentsModal ==
  /\ PanelShown
  /\ isModalOpen' = TRUE
  /\ IF AlreadyHaveData(documents)
     THEN UNCHANGED <<isLoadingDocs, docError, docListReqs, docListCount>>
     ELSE /\ docListCount < MaxDocListReqs
          /\ isLoadingDocs' = TRUE
          /\ docError' = ""
          /\ docListCount' = docListCount + 1
          /\ docListReqs' = docListReqs + 1
  /\ UNCHANGED <<appVars, session, summaryVars, chatVars, documents,
                 selectedDoc, summaryReqs, queryReqs, contentReqs, orphans,
                 queryCount, contentCount, lastDocsLoad, lastSummary,
                 lastQueryOutcome>>

\* openDocumentsModal after the await, response ok (lines 98-100, 105)
DocListOk(docsList) ==
  /\ docListReqs > 0
  /\ docListReqs' = docListReqs - 1
  /\ documents' = docsList
  /\ docError' = IF Len(docsList) = 0
                 THEN "No documents found for this patient."
                 ELSE docError
  /\ isLoadingDocs' = FALSE
  /\ lastDocsLoad' = IF Len(docsList) = 0 THEN "empty" ELSE "nonempty"
  /\ UNCHANGED <<appVars, session, summaryVars, chatVars, isModalOpen,
                 selectedDoc, summaryReqs, queryReqs, contentReqs, orphans,
                 queryCount, docListCount, contentCount, lastSummary,
                 lastQueryOutcome>>

\* openDocumentsModal after the await, failure (lines 101-105)
DocListFailed(failure) ==
  /\ docListReqs > 0
  /\ docListReqs' = docListReqs - 1
  /\ docError' = DocListMessage(failure)
  /\ isLoadingDocs' = FALSE
  /\ lastDocsLoad' = "failed"
  /\ UNCHANGED <<appVars, session, summaryVars, chatVars, isModalOpen,
                 documents, selectedDoc, summaryReqs, queryReqs, contentReqs,
                 orphans, queryCount, docListCount, contentCount,
                 lastSummary, lastQueryOutcome>>

\* viewDocumentContent up to the await (lines 110-114), the list item of
\* line 261
viewDocumentContent(doc) ==
  /\ ListShown
  /\ \E i \in 1..Len(documents) : documents[i] = doc
  /\ contentCount < MaxContentReqs
  /\ selectedDoc' = <<[filename |-> doc.filename, content |-> "Loading...",
                       classification |-> ""]>>
  /\ docError' = ""
  /\ contentCount' = contentCount + 1
  /\ contentReqs' = [contentReqs EXCEPT ![doc] = @ + 1]
  /\ UNCHANGED <<appVars, session, summaryVars, chatVars, isModalOpen,
                 documents, isLoadingDocs, summaryReqs, queryReqs, docListReqs,
                 orphans, queryCount, docListCount, lastDocsLoad, lastSummary,
                 lastQueryOutcome>>

\* viewDocumentContent after the await, response ok (lines 120-121)
ContentOk(doc) ==
  /\ contentReqs[doc] > 0
  /\ contentReqs' = [contentReqs EXCEPT ![doc] = @ - 1]
  /\ selectedDoc' = <<[filename |-> doc.filename,
                       content |-> ContentOf(doc).content,
                       classification |-> ContentOf(doc).classification]>>
  /\ UNCHANGED <<appVars, session, summaryVars, chatVars, isModalOpen,
                 documents, isLoadingDocs, docError, summaryReqs, queryReqs,
                 docListReqs, orphans, histVars>>

\* viewDocumentContent after the await, failure (lines 122-126)
ContentFailed(doc, failure) ==
  /\ contentReqs[doc] > 0
  /\ contentReqs' = [contentReqs EXCEPT ![doc] = @ - 1]
  /\ docError' = ContentMessage(failure)
  /\ selectedDoc' = <<[filename |-> doc.filename,
                       content |-> "Error loading content. Please try again.",
                       classification |-> ""]>>
  /\ UNCHANGED <<appVars, session, summaryVars, chatVars, isModalOpen,
                 documents, isLoadingDocs, summaryReqs, queryReqs, docListReqs,
                 orphans, histVars>>

\* closeModal (lines 130-134), the overlay and the close button
closeModal ==
  /\ ModalShown
  /\ isModalOpen' = FALSE
  /\ selectedDoc' = <<>>
  /\ docError' = ""
  /\ UNCHANGED <<appVars, session, summaryVars, chatVars, documents,
                 isLoadingDocs, netVars, histVars>>

\* line 246: the back-to-docs button
backToDocs ==
  /\ ViewerShown
  /\ selectedDoc' = <<>>
  /\ UNCHANGED <<appVars, session, summaryVars, chatVars, isModalOpen,
                 documents, isLoadingDocs, docError, netVars, histVars>>

(* --------------------------- specifications --------------------------- *)
NextSummary ==
  \/ \E r \in summaryReqs, raw \in RawSummaries : SummaryOk(r, raw)
  \/ \E r \in summaryReqs, f \in SummaryFailures : SummaryFailed(r, f)

NextChat ==
  \/ \E text \in Queries : setQuery(text)
  \/ \E value \in BOOLEAN : setIsExpanded(value)
  \/ handleQuerySubmit
  \/ \E r \in queryReqs, a \in QueryAnswers : QueryOk(r, a)
  \/ \E r \in queryReqs, f \in QueryFailures : QueryFailed(r, f)

NextDocs ==
  \/ openDocumentsModal
  \/ \E l \in DocLists : DocListOk(l)
  \/ \E f \in DocFailures : DocListFailed(f)
  \/ \E d \in Docs : viewDocumentContent(d)
  \/ \E d \in Docs : ContentOk(d)
  \/ \E d \in Docs, f \in DocFailures : ContentFailed(d, f)
  \/ closeModal
  \/ backToDocs

\* the user picks a patient or goes back
NextSelect ==
  \/ \E p \in Patients : handlePatientSelect(p)
  \/ onBack

\* the profile endpoint answers, the page is reloaded
NextCache ==
  \/ \E r \in profileFetches, d \in Data : ProfileFetchOk(r, d)
  \/ \E r \in profileFetches : ProfileFetchFailed(r)
  \/ Reload

NextOrphans == \E flow \in Flows : OrphanResponse(flow)

Next == NextSelect \/ NextCache \/ NextSummary \/ NextChat \/ NextDocs \/ NextOrphans

\* the whole program; the specifications below restrict it to one component
\* and the part of its environment that component reads
Spec == Init /\ [][Next]_vars

\* the App component with the summary request of the detail view it mounts
SpecApp == Init /\ [][NextSelect \/ NextCache \/ NextSummary \/ NextOrphans]_vars

\* a page loaded with no stored cache whose profile endpoint has not
\* answered: PatientChat reads neither the cache nor the stored text
InitDetail == Init /\ storage = NoItem

\* the detail view with its summary and chat flows
SpecChat ==
  InitDetail /\ [][NextSelect \/ NextSummary \/ NextChat \/ NextOrphans]_vars

\* the user opens and leaves the detail view of the first roster patient,
\* whose summary, when it loads, is complete: the document flows read
\* neither the patient name nor the summary
FullSummary == CHOOSE raw \in RawSummaries :
  raw.hasSummary /\ \A v \in {raw.medication_summary,
    raw.lifestyle_recommendations, raw.condition_summary} : v \notin {UNDEFINED, ""}
NextVisit == handlePatientSelect(KeyOrder[1]) \/ onBack
NextSummaryFull ==
  \/ \E r \in summaryReqs : SummaryOk(r, FullSummary)
  \/ \E r \in summaryReqs, f \in SummaryFailures : SummaryFailed(r, f)

\* the detail view with its summary and document flows
SpecDocs ==
  InitDetail /\ [][NextVisit \/ NextSummaryFull \/ NextDocs \/ NextOrphans]_vars

\* requests issued by the mounted instance, or issued by an earlier instance
\* and not yet answered
RequestsOutstanding ==
  queryCount + docListCount + contentCount
    + orphans.query + orphans.docList + orphans.content
WithinBudget == RequestsOutstanding <= MaxRequests

\* the detail view with its four flows together, for the first roster
\* patient; the steps that issue a query, list or content request stay
\* within the budget
NextView ==
  \/ NextVisit
  \/ NextSummaryFull
  \/ NextOrphans
  \/ \E text \in Queries : setQuery(text)
  \/ \E value \in BOOLEAN : setIsExpanded(value)
  \/ handleQuerySubmit /\ WithinBudget'
  \/ \E r \in queryReqs, a \in QueryAnswers : QueryOk(r, a)
  \/ \E r \in queryReqs, f \in QueryFailures : QueryFailed(r, f)
  \/ openDocumentsModal /\ WithinBudget'
  \/ \E l \in DocLists : DocListOk(l)
  \/ \E f \in DocFailures : DocListFailed(f)
  \/ \E d \in Docs : viewDocumentContent(d) /\ WithinBudget'
  \/ \E d \in Docs : ContentOk(d)
  \/ \E d \in Docs, f \in DocFailures : ContentFailed(d, f)
  \/ closeModal
  \/ backToDocs
SpecView == InitDetail /\ [][NextView]_vars

(* ------------------------------- claims ------------------------------- *)
\* a step in which the roster's view button selects patient p
Selects(p) == selectedPatient = NULL /\ selectedPatient' = p
SentinelStored(p) ==
  profileCache.tag = "object" /\ Get(profileCache.map, p) = NULL
InFlight(p) == {r \in profileFetches : r.patientName = p}
StoredKeys(text) == {text.entries[i].key : i \in 1..Len(text.entries)}

\* C1: once the failure sentinel null is stored for a patient, selecting that
\* patient issues no new profile request (the number of requests issued for
\* the patient stays as it was).
C1_NoRefetchAfterFailure ==
  [][\A p \in Patients :
       (SentinelStored(p) /\ Selects(p)) => fetchCount'[p] = fetchCount[p]]_vars

\* C2: at most one profile request per patient is in flight at any time, so
\* selecting a patient again while its fetch is in flight issues no second
\* request.
C2_OneFetchInFlightPerPatient ==
  \A p \in Patients : Cardinality(InFlight(p)) <= 1

\* C3: a cache entry, once written for a patient, stays a key of the
\* in-memory cache and of the stored record in every later state, and its
\* value changes only when a fetch for that patient completes.
C3_EntryNeverLost ==
  [][\A p \in Patients :
       (profileCache.tag = "object" /\ p \in DOMAIN profileCache.map
          /\ p \in StoredKeys(storage))
       => /\ profileCache'.tag = "object"
          /\ p \in DOMAIN profileCache'.map
          /\ p \in StoredKeys(storage')
          /\ profileCache'.map[p] # profileCache.map[p]
               => \E r \in profileFetches \ profileFetches' : r.patientName = p]_vars

\* C4: from the first cache write on, the mapping read from the stored text
\* equals the in-memory cache mapping in every state.
C4_DurableEqualsMemory ==
  lastWritten # <<>> =>
    /\ storage.kind = "mapping"
    /\ profileCache.tag = "object"
    /\ JSONparse(storage) = profileCache

\* a write has stored a summary for one patient and the sentinel for the other
C4_Witness ==
  /\ lastWritten # <<>>
  /\ profileCache.tag = "object"
  /\ DOMAIN profileCache.map = Patients
  /\ \E p \in Patients : profileCache.map[p] = NULL
  /\ \E p \in Patients : profileCache.map[p] \in Data

\* C5: a page load after cache writes reads back the mapping last written.
C5_RoundTrip ==
  [][(pageLoads' = pageLoads + 1 /\ lastWritten # <<>>)
       => profileCache' = ObjCache(lastWritten[1])]_vars

\* the page was reloaded after writes of a summary and of the sentinel, and
\* holds what was written
C5_Witness ==
  /\ pageLoads = 2
  /\ loadedKind = "mapping"
  /\ lastWritten # <<>>
  /\ profileCache = ObjCache(lastWritten[1])
  /\ DOMAIN lastWritten[1] = Patients
  /\ \E p \in Patients : lastWritten[1][p] = NULL
  /\ \E p \in Patients : lastWritten[1][p] \in Data

UserMessages(m) == Cardinality({i \in 1..Len(m) : m[i].sender = "user"})
PendingSubmitNoOp ==
  [][(isQueryLoading /\ selectedPatient' = selectedPatient)
       => /\ queryCount' = queryCount
          /\ queryReqs' \subseteq queryReqs
          /\ Len(messages') # Len(messages)
               => (~isQueryLoading' /\ queryReqs' # queryReqs)]_vars

\* C7 as stated: while a submission is pending a submit changes neither the
\* transcript nor the requests issued, so at most one query request is in
\* flight at any time.
C7_OneQueryInFlightEver ==
  PendingSubmitNoOp /\ [](Cardinality(queryReqs) + orphans.query <= 1)

\* C7 as amended: while a submission is pending a submit changes neither the
\* transcript nor the requests issued, so at most one query request of the
\* mounted detail view is in flight at any time.
C7_OneQueryInFlightPerView ==
  PendingSubmitNoOp /\ [](Cardinality(queryReqs) <= 1)

\* a non-blank text is in the input while a submission is pending
C7_Witness ==
  /\ FormShown
  /\ isQueryLoading
  /\ Trim(query) # <<>>
  /\ Cardinality(queryReqs) = 1
  /\ queryCount < MaxSubmits

\* C8: with an empty or blank text in the input no step appends a user
\* message, issues a query request or sets the loading flag; a submit leaves
\* the chat state unchanged.
C8_BlankSubmitNoOp ==
  [][Trim(query) = <<>>
       => /\ UserMessages(messages') <= UserMessages(messages)
          /\ queryCount' <= queryCount
          /\ queryReqs' \subseteq queryReqs
          /\ isQueryLoading' => isQueryLoading]_vars

\* a blank text is in the input of an idle chat form that took a submission
\* before
C8_Witness ==
  /\ FormShown
  /\ query = <<" ", " ">>
  /\ ~isQueryLoading
  /\ Len(messages) = 2
  /\ queryCount < MaxSubmits

\* C9: opening the closed modal after a list load that succeeded with
\* documents issues no list request; opening it after a load that returned
\* no documents or failed issues one.
C9_ReopenRefetchesOnlyAfterEmptyOrFailed ==
  [][(~isModalOpen /\ isModalOpen')
       => /\ lastDocsLoad = "nonempty" => docListCount' = docListCount
          /\ lastDocsLoad \in {"empty", "failed"}
               => docListCount' = docListCount + 1]_vars

\* C10: the answer to a content request never replaces the document shown by
\* another one: the filename in the viewed-document slot changes only when
\* the user selects a document.
C10_StaleContentDiscarded ==
  [][(selectedDoc # <<>> /\ selectedDoc' # <<>> /\ contentCount' = contentCount)
       => selectedDoc'[1].filename = selectedDoc[1].filename]_vars

\* C11: once the roster replaced the detail view, nothing changes the state
\* of a detail view (a late response is dropped); a detail view that opens
\* starts with an empty transcript, an empty document list and no viewed
\* document; and every request that can still update the mounted view was
\* issued by that view.
OwnRequestsOnly ==
  /\ Cardinality(summaryReqs) <= (IF selectedPatient = NULL THEN 0 ELSE 1)
  /\ \A r \in summaryReqs : r.patientName = selectedPatient
  /\ Cardinality(queryReqs) <= queryCount
  /\ docListReqs <= docListCount
  /\ contentReqs[DocA] + contentReqs[DocB] <= contentCount
SessionState == <<summaryVars, chatVars, docVars>>
C11_LateResponsesDropped ==
  /\ []OwnRequestsOnly
  /\ [][/\ (selectedPatient = NULL /\ selectedPatient' = NULL)
            => SessionState' = SessionState
        /\ (selectedPatient = NULL /\ selectedPatient' # NULL /\ ~appCrashed')
            => /\ messages' = <<>> /\ documents' = <<>> /\ selectedDoc' = <<>>
               /\ queryReqs' = {} /\ docListReqs' = 0
               /\ contentReqs' = NoContentReqs
        /\ (orphans' # orphans /\ selectedPatient' = selectedPatient)
            => SessionState' = SessionState]_vars
\* a second detail view is open, with an empty transcript, while a query
\* request and a list request of the first are pending
C11_Witness ==
  /\ session = 2 /\ selectedPatient # NULL
  /\ orphans.query > 0 /\ orphans.docList > 0
  /\ messages = <<>> /\ documents = <<>>

\* the fields of a summary and the placeholder the view shows for each
SummaryFields ==
  {"medication_summary", "lifestyle_recommendations", "condition_summary"}
PlaceholderOf(f) ==
  CASE f = "medication_summary" -> "No medication information available."
    [] f = "lifestyle_recommendations" -> "No lifestyle recommendations available."
    [] f = "condition_summary" -> "No condition information available."
\* field f is in the body of the answer
Present(raw, f) == raw.hasSummary /\ raw[f] # UNDEFINED
\* the held summary was built from the body of a 200 answer
HeldFromAnswer == profileData # <<>> /\ lastSummary # <<>>

\* C12 as stated: the held summary has the returned value of each field
\* that is present in the answer and the placeholder of each missing field,
\* and no field of it is undefined.
C12_PresentFieldsKept ==
  HeldFromAnswer =>
    \A f \in SummaryFields :
      /\ profileData[1][f] # UNDEFINED
      /\ profileData[1][f] =
           IF Present(lastSummary[1], f) THEN lastSummary[1][f]
           ELSE PlaceholderOf(f)

\* C12 amended: the held summary has the returned value of each field that
\* is present and not the empty string, the placeholder of every other
\* field, and no field of it is undefined.
C12_NonEmptyFieldsKept ==
  HeldFromAnswer =>
    \A f \in SummaryFields :
      /\ profileData[1][f] # UNDEFINED
      /\ profileData[1][f] =
           IF Present(lastSummary[1], f) /\ lastSummary[1][f] # ""
           THEN lastSummary[1][f]
           ELSE PlaceholderOf(f)
\* a summary is held that was built from an answer with a field missing,
\* a field empty and a field with a text
C12_Witness ==
  /\ HeldFromAnswer
  /\ \E f \in SummaryFields : ~Present(lastSummary[1], f)
  /\ \E f \in SummaryFields : lastSummary[1][f] = ""
  /\ \E f \in SummaryFields :
       Present(lastSummary[1], f) /\ lastSummary[1][f] # ""

\* C13: whenever a patient is selected and its key is absent from the cache
\* (line 61: the detail view is told the profile is still loading), a
\* profile request for that patient is in flight.
C13_LoadingHasFetchInFlight ==
  (/\ selectedPatient # NULL
   /\ ~appCrashed
   /\ profileCache.tag = "object"
   /\ Get(profileCache.map, selectedPatient) = UNDEFINED)
  => InFlight(selectedPatient) # {}

\* C14: in the mounted detail view, once the loading flag is false, either
\* the error message is non-empty and no summary is held, or the error
\* message is empty and a summary is held, never both and never neither; the
\* summary panel is never rendered with a null summary.
C14_ErrorXorSummary ==
  /\ (selectedPatient # NULL /\ ~appCrashed /\ ~isLoading)
       => (profileError # "" /\ profileData = <<>>)
            # (profileError = "" /\ profileData # <<>>)
  /\ PanelShown => profileData # <<>>
\* the summary request failed by a rejection without a message and the view
\* shows the error
C14_Witness ==
  /\ selectedPatient # NULL /\ ~isLoading
  /\ profileError = "Could not load patient summary."
  /\ profileData = <<>>

\* a step of the mounted detail view, which stays mounted
SameView == selectedPatient # NULL /\ selectedPatient' = selectedPatient
IsPrefix(a, b) == Len(a) <= Len(b) /\ SubSeq(b, 1, Len(a)) = a
\* a step in which a query request of the mounted view is answered
QueryAnswered == SameView /\ queryReqs' # queryReqs /\ queryReqs' \subseteq queryReqs

\* C15: within a detail view the transcript only grows, in submission
\* order: every step keeps the transcript as a prefix of the new one, and
\* the bot message of a submission comes directly after that submission's
\* user message (the transcript alternates user, bot, user, bot).
C15_TranscriptAppendOnly ==
  /\ [](\A i \in 1..Len(messages) :
          messages[i].sender = IF i % 2 = 1 THEN "user" ELSE "bot")
  /\ [][SameView => IsPrefix(messages, messages')]_vars
  /\ [][QueryAnswered =>
          /\ Len(messages) > 0
          /\ messages[Len(messages)].sender = "user"
          /\ Len(messages') = Len(messages) + 1
          /\ messages'[Len(messages')].sender = "bot"]_vars
\* two submissions were answered in one detail view, the first with an error
C15_Witness ==
  /\ selectedPatient # NULL
  /\ Len(messages) = 4
  /\ messages[2].isError /\ ~messages[4].isError

\* C16: in a detail view the number of query requests issued equals the
\* number of user messages in the transcript, and the answer to a request,
\* failed or not, issues no request.
C16_OneRequestPerSubmission ==
  /\ [](selectedPatient # NULL => queryCount = UserMessages(messages))
  /\ [][(SameView /\ lastQueryOutcome' # lastQueryOutcome)
          => (queryCount' = queryCount /\ queryReqs' \subseteq queryReqs)]_vars
  /\ [][QueryAnswered => queryCount' = queryCount]_vars
\* a query request failed, a second submission was made and is pending
C16_Witness ==
  /\ selectedPatient # NULL
  /\ lastQueryOutcome \in QueryFailures
  /\ queryCount = 2 /\ UserMessages(messages) = 2
  /\ queryReqs # {}

\* C17: when the query request of a submission is answered, one bot message
\* is appended, flagged isError exactly when the request failed (by a
\* status or by a rejected fetch), and the loading flag is false again; the
\* loading flag is true only while a request of the view is pending, and a
\* non-blank submit made while it is false is accepted.
C17_SubmissionTerminates ==
  /\ [](selectedPatient # NULL =>
          /\ isQueryLoading <=> queryReqs # {}
          /\ Len(messages) = 2 * queryCount - Cardinality(queryReqs))
  /\ [][QueryAnswered =>
          /\ messages' = Append(messages, messages'[Len(messages')])
          /\ messages'[Len(messages')].sender = "bot"
          /\ messages'[Len(messages')].isError
               <=> lastQueryOutcome' \in QueryFailures
          /\ ~isQueryLoading']_vars
  /\ [](\A q \in Queries : ~isQueryLoading /\ Trim(q) # <<>>
          => ~SubmitRejected(q, isQueryLoading))
\* a rejected fetch was answered with an error message, and the submission
\* made after it was answered too
C17_Witness ==
  /\ selectedPatient # NULL
  /\ Len(messages) = 4
  /\ messages[2].isError
  /\ messages[2].text = "Sorry, I encountered an error: Failed to fetch."
  /\ ~isQueryLoading /\ queryReqs = {}

\* C18: at most one document-list request of the detail view is in flight
\* at any time; in particular opening the modal again after it was closed
\* never leaves a second list request in flight.
C18_OneListRequestInFlight ==
  [][(selectedPatient' = selectedPatient /\ ~isModalOpen /\ isModalOpen')
       => docListReqs' <= 1]_vars

\* the state of the document-list flow and of the document-content flow
listFlowVars == <<documents, isLoadingDocs, docError>>
contentFlowVars == <<selectedDoc>>

\* C19: in a mounted detail view a step of one flow leaves the state of the
\* other three flows unchanged: a content request or its answer changes
\* neither the list, its loading flag nor the list error, and a chat step
\* changes neither the summary nor the document state.
C19_FlowsShareNoState ==
  [][SameView =>
       /\ contentReqs' # contentReqs
            => UNCHANGED <<listFlowVars, summaryVars, chatVars>>
       /\ docListReqs' # docListReqs
            => UNCHANGED <<contentFlowVars, summaryVars, chatVars>>
       /\ (chatVars' # chatVars \/ queryReqs' # queryReqs)
            => UNCHANGED <<summaryVars, docVars>>
       /\ summaryReqs' # summaryReqs
            => UNCHANGED <<chatVars, docVars>>]_vars

\* C20: once the viewed-document slot is empty (the modal was closed or
\* 'Back to document list' was clicked) it stays empty until the user
\* selects a document: no answer to an earlier content request fills it.
C20_ClearedSlotStaysEmpty ==
  [][(selectedPatient # NULL /\ selectedDoc = <<>>
        /\ contentCount' = contentCount)
       => selectedDoc' = <<>>]_vars

\* C21: the document list is fetched lazily.  A detail view mounts with no
\* list request issued; as long as it has issued none, its modal has not
\* been opened and it holds no list; a step of the summary or chat flow
\* issues no list request; and the step that issues one opens the modal.
C21_ListFetchedOnFirstOpen ==
  /\ []((selectedPatient # NULL /\ docListCount = 0)
         => (~isModalOpen /\ docListReqs = 0 /\ ~isLoadingDocs
             /\ documents = <<>>))
  /\ [][(selectedPatient = NULL /\ selectedPatient' # NULL)
          => (docListCount' = 0 /\ docListReqs' = 0)]_vars
  /\ [][(SameView /\ (<<summaryVars, chatVars>>' # <<summaryVars, chatVars>>
                        \/ summaryReqs' # summaryReqs
                        \/ queryReqs' # queryReqs))
          => (docListCount' = docListCount /\ docListReqs' <= docListReqs)]_vars
  /\ [][(SameView /\ docListCount' # docListCount)
          => (isModalOpen' /\ docListReqs' = docListReqs + 1)]_vars
\* the summary has loaded and a chat submission was answered in a detail
\* view whose documents modal was not opened yet: no list request was issued
C21_Witness ==
  /\ selectedPatient # NULL
  /\ profileData # <<>> /\ Len(messages) = 2 /\ queryReqs = {}
  /\ ~isModalOpen /\ docListCount = 0 /\ docListReqs = 0
====
